---- MODULE Spec2Model ----
(***************************************************************************)
(* Model of homework.py: the fitness-tracker formula hierarchy (Training,  *)
(* Running, SportsWalking, Swimming), the dispatcher read_package, the     *)
(* report InfoMessage with its formatter get_message, main, and the        *)
(* script's driver loop.                                                   *)
(*                                                                         *)
(* Numbers.  Python ints and floats are modelled as exact rationals        *)
(* <<n, d>> in lowest terms with d > 0; 0.65 is 13/20.  The model therefore *)
(* abstracts from the rounding error of IEEE doubles.                      *)
(*                                                                         *)
(* Exceptions.  A call yields either Ok(v) or Raise(type, msg, context);   *)
(* an exception propagates through every caller that has no handler.       *)
(***************************************************************************)
EXTENDS Integers, Sequences, FiniteSets, TLC

VARIABLES packages, idx, pc, training, info, stdout, raised, ret

vars == <<packages, idx, pc, training, info, stdout, raised, ret>>

(***************************** bounds **************************************)
\* longest argument list handed to a constructor or to read_package
MaxArgs == 6
\* longest sample list the driver loop runs over
MaxPackages == 3

(************************* rational arithmetic *****************************)
Abs(x) == IF x < 0 THEN -x ELSE x

RECURSIVE Gcd(_, _)
Gcd(a, b) == IF b = 0 THEN a ELSE Gcd(b, a % b)

\* the rational n/d in lowest terms, d # 0
Rat(n, d) ==
    LET g == Gcd(Abs(n), Abs(d))
        s == IF d < 0 THEN -1 ELSE 1
    IN  <<(s * n) \div g, Abs(d) \div g>>

Num(n) == <<n, 1>>
Zero == Num(0)

Add(a, b) == Rat(a[1] * b[2] + b[1] * a[2], a[2] * b[2])
Sub(a, b) == Rat(a[1] * b[2] - b[1] * a[2], a[2] * b[2])
\* common factors are cancelled crosswise before multiplying
Mul(a, b) ==
    LET g == Gcd(Abs(a[1]), b[2])
        h == Gcd(Abs(b[1]), a[2])
    IN  Rat((a[1] \div g) * (b[1] \div h), (a[2] \div h) * (b[2] \div g))
\* a / b for b # 0
Quot(a, b) == Rat(a[1] * b[2], a[2] * b[1])
Lt(a, b) == a[1] * b[2] < b[1] * a[2]
IsZero(a) == a[1] = 0
\* the largest integer <= a (\div rounds toward minus infinity)
Floor(a) == a[1] \div a[2]

(************************** results of calls *******************************)
NoExc == [type |-> "None", msg |-> "", context |-> "None"]
Exc(t, m, c) == [type |-> t, msg |-> m, context |-> c]

Ok(v) == [raised |-> FALSE, val |-> v]
Raise(t, m, c) == [raised |-> TRUE, exc |-> Exc(t, m, c)]

\* faulty variant: a zero divisor yields 0 instead of raising
TrueDiv_zero(a, b) ==
    IF IsZero(b) THEN Ok(Zero) ELSE Ok(Quot(a, b))

\* Python's true division a / b
TrueDiv(a, b) ==
    IF IsZero(b) THEN Raise("ZeroDivisionError", "division by zero", "None")
    ELSE Ok(Quot(a, b))

\* faulty variant: the quotient is rounded to the nearest integer, not floored
FloorDiv_round(a, b) ==
    IF IsZero(b) THEN Raise("ZeroDivisionError", "division by zero", "None")
    ELSE Ok(Num(Floor(Add(Quot(a, b), Rat(1, 2)))))

\* Python's floor division a // b on numbers: a number again
FloorDiv(a, b) ==
    IF IsZero(b) THEN Raise("ZeroDivisionError", "division by zero", "None")
    ELSE Ok(Num(Floor(Quot(a, b))))

(***************************** constants ***********************************)
MIN_IN_HOUR == 60
M_IN_KM == 1000
CAL_RUN_1 == 18
CAL_RUN_2 == 20
CAL_WLK_1 == Rat(35, 1000)
CAL_WLK_2 == Rat(29, 1000)
CAL_SWM_1 == Rat(11, 10)
CAL_SWM_2 == 2

\* faulty variant: Swimming does not override LEN_STEP
LEN_STEP_base(cls) == Rat(65, 100)

\* Training.LEN_STEP, overridden by Swimming
LEN_STEP(cls) == IF cls = "Swimming" THEN Rat(138, 100) ELSE Rat(65, 100)

(****************************** classes ************************************)
NoTraining == [cls |-> "None"]
NoInfo == [training_type |-> "None"]
NoRet == [call |-> "None", kind |-> "none"]

ClassNames == {"Training", "Running", "SportsWalking", "Swimming"}

\* number of positional parameters of cls.__init__ besides self
Arity(cls) ==
    CASE cls = "SportsWalking" -> 4
      [] cls = "Swimming" -> 5
      [] OTHER -> 3

\* cls(*data): binds the arguments positionally; a wrong count is a TypeError
New(cls, data) ==
    IF Len(data) # Arity(cls)
    THEN Raise("TypeError", "__init__() positional arguments", "None")
    ELSE CASE cls = "SportsWalking" ->
                Ok([cls |-> cls, action |-> data[1], duration |-> data[2],
                    weight |-> data[3], height |-> data[4]])
           [] cls = "Swimming" ->
                Ok([cls |-> cls, action |-> data[1], duration |-> data[2],
                    weight |-> data[3], length_pool |-> data[4],
                    count_pool |-> data[5]])
           [] OTHER ->
                Ok([cls |-> cls, action |-> data[1], duration |-> data[2],
                    weight |-> data[3]])

\* Training.get_distance and Swimming.get_distance (same body, own LEN_STEP)
get_distance(t) ==
    Quot(Mul(t.action, LEN_STEP(t.cls)), Num(M_IN_KM))

\* Training.get_mean_speed and its override Swimming.get_mean_speed
get_mean_speed(t) ==
    IF t.cls = "Swimming"
    THEN TrueDiv(Quot(Mul(t.length_pool, t.count_pool), Num(M_IN_KM)),
                 t.duration)
    ELSE TrueDiv(get_distance(t), t.duration)

\* faulty variant: the duration is left in hours
Running_get_spent_calories_hours(t) ==
    LET ms == get_mean_speed(t)
    IN  IF ms.raised THEN ms
        ELSE Ok(Mul(Quot(Mul(Sub(Mul(Num(CAL_RUN_1), ms.val),
                                 Num(CAL_RUN_2)),
                             t.weight),
                         Num(M_IN_KM)),
                    t.duration))

\* faulty variant: a negative result is clamped at zero
Running_get_spent_calories_clamped(t) ==
    LET ms == get_mean_speed(t)
    IN  IF ms.raised THEN ms
        ELSE LET c == Mul(Mul(Quot(Mul(Sub(Mul(Num(CAL_RUN_1), ms.val),
                                           Num(CAL_RUN_2)),
                                       t.weight),
                                   Num(M_IN_KM)),
                              t.duration),
                          Num(MIN_IN_HOUR))
             IN  Ok(IF Lt(c, Zero) THEN Zero ELSE c)

Running_get_spent_calories(t) ==
    LET ms == get_mean_speed(t)
    IN  IF ms.raised THEN ms
        ELSE Ok(Mul(Mul(Quot(Mul(Sub(Mul(Num(CAL_RUN_1), ms.val),
                                     Num(CAL_RUN_2)),
                                 t.weight),
                             Num(M_IN_KM)),
                        t.duration),
                    Num(MIN_IN_HOUR)))

\* ** binds tighter than //, and // and * associate to the left:
\* ((ms**2 // height) * CAL_WLK_2) * weight
SportsWalking_get_spent_calories(t) ==
    LET ms == get_mean_speed(t)
    IN  IF ms.raised THEN ms
        ELSE LET fd == FloorDiv(Mul(ms.val, ms.val), t.height)
             IN  IF fd.raised THEN fd
                 ELSE Ok(Mul(Mul(Add(Mul(CAL_WLK_1, t.weight),
                                     Mul(Mul(fd.val, CAL_WLK_2), t.weight)),
                                 t.duration),
                             Num(MIN_IN_HOUR)))

Swimming_get_spent_calories(t) ==
    LET ms == get_mean_speed(t)
    IN  IF ms.raised THEN ms
        ELSE Ok(Mul(Mul(Add(ms.val, CAL_SWM_1), Num(CAL_SWM_2)), t.weight))

Training_get_spent_calories(t) ==
    Raise("NotImplementedError", "must be overridden", "None")

\* faulty variant: Swimming inherits the base method
get_spent_calories_no_swim(t) ==
    CASE t.cls = "Running" -> Running_get_spent_calories(t)
      [] t.cls = "SportsWalking" -> SportsWalking_get_spent_calories(t)
      [] OTHER -> Training_get_spent_calories(t)

\* method resolution of get_spent_calories
get_spent_calories(t) ==
    CASE t.cls = "Running" -> Running_get_spent_calories(t)
      [] t.cls = "SportsWalking" -> SportsWalking_get_spent_calories(t)
      [] t.cls = "Swimming" -> Swimming_get_spent_calories(t)
      [] OTHER -> Training_get_spent_calories(t)

\* the replacement fields of the default of InfoMessage.message, in order
Template ==
    <<[field |-> "training_type", conv |-> "s"],
      [field |-> "duration", conv |-> ".3f"],
      [field |-> "distance", conv |-> ".3f"],
      [field |-> "speed", conv |-> ".3f"],
      [field |-> "calories", conv |-> ".3f"]>>

\* the dataclass constructor with all six fields given
InfoMessage6(training_type, duration, distance, speed, calories, message) ==
    [training_type |-> training_type, duration |-> duration,
     distance |-> distance, speed |-> speed, calories |-> calories,
     message |-> message]

\* InfoMessage(type, duration, distance, speed, calories): message defaults
InfoMessage(training_type, duration, distance, speed, calories) ==
    InfoMessage6(training_type, duration, distance, speed, calories, Template)

\* faulty variant: distance and speed are passed in each other's place
show_training_info_swapped(t) ==
    LET ms == get_mean_speed(t)
        sc == get_spent_calories(t)
    IN  IF ms.raised THEN ms
        ELSE IF sc.raised THEN sc
        ELSE Ok(InfoMessage(t.cls, t.duration, ms.val, get_distance(t),
                            sc.val))

\* the arguments are evaluated left to right; the first exception wins
show_training_info(t) ==
    LET ms == get_mean_speed(t)
        sc == get_spent_calories(t)
    IN  IF ms.raised THEN ms
        ELSE IF sc.raised THEN sc
        ELSE Ok(InfoMessage(t.cls, t.duration, get_distance(t), ms.val,
                            sc.val))

(***************************** formatting **********************************)
\* format(x, '.3f'): sign, integer part and three fraction digits of x
\* rounded to the nearest thousandth, ties to even
Fmt3f(x) ==
    LET m == Abs(x[1]) * 1000
        q == m \div x[2]
        r == m % x[2]
        k == IF 2 * r > x[2] THEN q + 1
             ELSE IF 2 * r < x[2] THEN q
             ELSE IF q % 2 = 0 THEN q ELSE q + 1
    IN  [sign |-> IF x[1] < 0 THEN "-" ELSE "",
         whole |-> k \div 1000,
         frac |-> <<(k \div 100) % 10, (k \div 10) % 10, k % 10>>]

\* one replacement field rendered from the keyword arguments asdict(self)
Render(f, d) ==
    [field |-> f.field,
     text |-> IF f.conv = "s" THEN [str |-> d[f.field]] ELSE Fmt3f(d[f.field])]

\* every field the template names is a key of asdict(self)
Formattable(i) ==
    \A k \in 1..Len(i.message) : i.message[k].field \in DOMAIN i

\* InfoMessage.get_message: message.format(**asdict(self)), any failure
\* re-raised as the formatting error
get_message(i) ==
    IF Formattable(i)
    THEN Ok([k \in 1..Len(i.message) |-> Render(i.message[k], i)])
    ELSE Raise("Exception", "FormattingError", "KeyError")

(***************************** dispatcher **********************************)
read_dict ==
    [c \in {"SWM", "RUN", "WLK"} |->
        CASE c = "SWM" -> "Swimming"
          [] c = "RUN" -> "Running"
          [] OTHER -> "SportsWalking"]

\* faulty variant: a code that is not in the mapping falls back to Running
Dispatch_default(workout_type, data) ==
    IF workout_type \notin DOMAIN read_dict
    THEN New("Running", data)
    ELSE New(read_dict[workout_type], data)

\* the body of the try block: read_dict[workout_type](*data)
Dispatch(workout_type, data) ==
    IF workout_type \notin DOMAIN read_dict
    THEN Raise("KeyError", workout_type, "None")
    ELSE New(read_dict[workout_type], data)

\* except Exception: raise Exception('Неизвестный тип тренеровки.')
read_package(workout_type, data) ==
    LET r == Dispatch(workout_type, data)
    IN  IF r.raised
        THEN Raise("Exception", "UnknownWorkoutType", r.exc.type)
        ELSE r

\* main(training): the line printed, or the exception that leaves main
main(t) ==
    LET i == show_training_info(t)
    IN  IF i.raised THEN i ELSE get_message(i.val)

(******************************* inputs ************************************)
ActionValues == {Num(0), Num(720), Num(1000), Num(2000), Num(5000),
                 Num(9000), Num(15000)}
DurationValues == {Zero, Rat(1, 2), Num(1), Rat(117, 100), Rat(13, 10)}
WeightValues == {Num(75), Num(80)}
\* fourth argument: a height or a pool length
FourthValues == {Num(7), Num(180), Num(25)}
\* fifth argument: a pool count
FifthValues == {Num(0), Num(40)}

WorkoutTypes == {"SWM", "RUN", "WLK", "XYZ", "run"}

Sample(workout_type, data) == [workout_type |-> workout_type, data |-> data]

\* argument lists of every length 0..MaxArgs
DataLists ==
    {SubSeq(<<a, d, w, x, y>> \o [i \in 1..(MaxArgs - 5) |-> Num(1)], 1, n) :
        a \in ActionValues, d \in DurationValues, w \in WeightValues,
        x \in FourthValues, y \in FifthValues, n \in 0..MaxArgs}

\* the list of the script, lines 143-147
DemoPackages ==
    <<Sample("SWM", <<Num(720), Num(1), Num(80), Num(25), Num(40)>>),
      Sample("RUN", <<Num(15000), Num(1), Num(75)>>),
      Sample("WLK", <<Num(9000), Num(1), Num(75), Num(180)>>)>>

\* samples for longer runs of the driver loop: the script's and failing ones
DriverSamples ==
    {DemoPackages[k] : k \in 1..Len(DemoPackages)}
    \cup {Sample("RUN", <<Num(0), Num(1), Num(75)>>),
          Sample("RUN", <<Num(15000), Zero, Num(75)>>),
          Sample("RUN", <<Num(15000), Num(1)>>),
          Sample("XYZ", <<Num(1), Num(1), Num(1)>>),
          Sample("WLK", <<Num(5000), Rat(13, 10), Num(75), Num(7)>>)}

\* lists of up to MaxPackages of these samples, and every one-sample list
PackageLists ==
    UNION {[1..n -> DriverSamples] : n \in 0..MaxPackages}
    \cup {<<Sample(c, d)>> : c \in WorkoutTypes, d \in DataLists}

\* message templates a caller may hand to InfoMessage directly
Messages == {Template,
             <<[field |-> "calories", conv |-> ".3f"],
               [field |-> "pace", conv |-> ".3f"]>>}

(************************* the script's driver loop ************************)
Init ==
    /\ packages \in PackageLists
    /\ idx = 1
    /\ pc = "read"
    /\ training = NoTraining
    /\ info = NoInfo
    /\ stdout = <<>>
    /\ raised = NoExc
    /\ ret = NoRet

\* faulty variant: the loop catches a failed dispatch and goes on to the next sample
DriverRead_skip ==
    /\ pc = "read"
    /\ idx <= Len(packages)
    /\ LET r == read_package(packages[idx].workout_type, packages[idx].data)
       IN  IF r.raised
           THEN /\ idx' = idx + 1
                /\ pc' = "read"
                /\ UNCHANGED training
           ELSE /\ training' = r.val
                /\ pc' = "show"
                /\ UNCHANGED idx
    /\ UNCHANGED <<packages, info, stdout, raised, ret>>

\* line 150: training = read_package(workout_type, data)
DriverRead ==
    /\ pc = "read"
    /\ idx <= Len(packages)
    /\ LET r == read_package(packages[idx].workout_type, packages[idx].data)
       IN  IF r.raised
           THEN /\ raised' = r.exc
                /\ pc' = "aborted"
                /\ UNCHANGED training
           ELSE /\ training' = r.val
                /\ pc' = "show"
                /\ UNCHANGED raised
    /\ UNCHANGED <<packages, idx, info, stdout, ret>>

\* line 138: info = training.show_training_info()
DriverShow ==
    /\ pc = "show"
    /\ LET r == show_training_info(training)
       IN  IF r.raised
           THEN /\ raised' = r.exc
                /\ pc' = "aborted"
                /\ UNCHANGED info
           ELSE /\ info' = r.val
                /\ pc' = "print"
                /\ UNCHANGED raised
    /\ UNCHANGED <<packages, idx, training, stdout, ret>>

\* line 139: print(info.get_message()), then the loop's next iteration
DriverPrint ==
    /\ pc = "print"
    /\ LET r == get_message(info)
       IN  IF r.raised
           THEN /\ raised' = r.exc
                /\ pc' = "aborted"
                /\ UNCHANGED <<stdout, idx>>
           ELSE /\ stdout' = Append(stdout, r.val)
                /\ idx' = idx + 1
                /\ pc' = "read"
                /\ UNCHANGED raised
    /\ UNCHANGED <<packages, training, info, ret>>

\* line 149: the list is exhausted
DriverExit ==
    /\ pc = "read"
    /\ idx > Len(packages)
    /\ pc' = "done"
    /\ UNCHANGED <<packages, idx, training, info, stdout, raised, ret>>

Next == DriverRead \/ DriverShow \/ DriverPrint \/ DriverExit

Spec == Init /\ [][Next]_vars

(******************* the module's functions, called one by one *************)
\* a caller holds one input (packages[1]) and makes the calls below
LibInit ==
    /\ packages \in {<<Sample(c, d)>> : c \in WorkoutTypes, d \in DataLists}
    /\ idx = 1
    /\ pc = "start"
    /\ training = NoTraining
    /\ info = NoInfo
    /\ stdout = <<>>
    /\ raised = NoExc
    /\ ret = NoRet

Returned(call, kind, v) == [call |-> call, kind |-> kind, val |-> v]
Failed(call) == [call |-> call, kind |-> "none"]

\* read_package(workout_type, data)
CallReadPackage ==
    /\ pc = "start"
    /\ LET r == read_package(packages[1].workout_type, packages[1].data)
       IN  IF r.raised
           THEN /\ raised' = r.exc
                /\ pc' = "raised"
                /\ ret' = Failed("read_package")
                /\ UNCHANGED training
           ELSE /\ training' = r.val
                /\ pc' = "object"
                /\ ret' = Returned("read_package", "object", r.val)
                /\ UNCHANGED raised
    /\ UNCHANGED <<packages, idx, info, stdout>>

\* cls(*data) called directly, the base class included
CallNew(cls) ==
    /\ pc = "start"
    /\ LET r == New(cls, packages[1].data)
       IN  IF r.raised
           THEN /\ raised' = r.exc
                /\ pc' = "raised"
                /\ ret' = Failed("__init__")
                /\ UNCHANGED training
           ELSE /\ training' = r.val
                /\ pc' = "object"
                /\ ret' = Returned("__init__", "object", r.val)
                /\ UNCHANGED raised
    /\ UNCHANGED <<packages, idx, info, stdout>>

\* training.get_distance()
CallGetDistance ==
    /\ pc = "object"
    /\ ret' = Returned("get_distance", "number", get_distance(training))
    /\ pc' = "returned"
    /\ UNCHANGED <<packages, idx, training, info, stdout, raised>>

\* training.get_mean_speed()
CallGetMeanSpeed ==
    /\ pc = "object"
    /\ LET r == get_mean_speed(training)
       IN  IF r.raised
           THEN /\ raised' = r.exc
                /\ pc' = "raised"
                /\ ret' = Failed("get_mean_speed")
           ELSE /\ ret' = Returned("get_mean_speed", "number", r.val)
                /\ pc' = "returned"
                /\ UNCHANGED raised
    /\ UNCHANGED <<packages, idx, training, info, stdout>>

\* training.get_spent_calories()
CallGetSpentCalories ==
    /\ pc = "object"
    /\ LET r == get_spent_calories(training)
       IN  IF r.raised
           THEN /\ raised' = r.exc
                /\ pc' = "raised"
                /\ ret' = Failed("get_spent_calories")
           ELSE /\ ret' = Returned("get_spent_calories", "number", r.val)
                /\ pc' = "returned"
                /\ UNCHANGED raised
    /\ UNCHANGED <<packages, idx, training, info, stdout>>

\* training.show_training_info()
CallShowTrainingInfo ==
    /\ pc = "object"
    /\ LET r == show_training_info(training)
       IN  IF r.raised
           THEN /\ raised' = r.exc
                /\ pc' = "raised"
                /\ ret' = Failed("show_training_info")
                /\ UNCHANGED info
           ELSE /\ info' = r.val
                /\ pc' = "report"
                /\ ret' = Returned("show_training_info", "report", r.val)
                /\ UNCHANGED raised
    /\ UNCHANGED <<packages, idx, training, stdout>>

\* InfoMessage(...) built by the caller, with a message template of its own
CallNewInfoMessage(message) ==
    /\ pc = "start"
    /\ Len(packages[1].data) >= 4
    /\ LET d == packages[1].data
           i == InfoMessage6(packages[1].workout_type, d[1], d[2], d[3], d[4],
                             message)
       IN  /\ info' = i
           /\ ret' = Returned("InfoMessage", "report", i)
    /\ pc' = "report"
    /\ UNCHANGED <<packages, idx, training, stdout, raised>>

\* info.get_message()
CallGetMessage ==
    /\ pc = "report"
    /\ LET r == get_message(info)
       IN  IF r.raised
           THEN /\ raised' = r.exc
                /\ pc' = "raised"
                /\ ret' = Failed("get_message")
           ELSE /\ ret' = Returned("get_message", "str", r.val)
                /\ pc' = "returned"
                /\ UNCHANGED raised
    /\ UNCHANGED <<packages, idx, training, info, stdout>>

\* main(training)
CallMain ==
    /\ pc = "object"
    /\ LET r == main(training)
       IN  IF r.raised
           THEN /\ raised' = r.exc
                /\ pc' = "raised"
                /\ ret' = Failed("main")
                /\ UNCHANGED stdout
           ELSE /\ stdout' = Append(stdout, r.val)
                /\ pc' = "returned"
                /\ ret' = Returned("main", "none", NoRet)
                /\ UNCHANGED raised
    /\ UNCHANGED <<packages, idx, training, info>>

LibNext ==
    \/ CallReadPackage
    \/ \E cls \in ClassNames : CallNew(cls)
    \/ CallGetDistance
    \/ CallGetMeanSpeed
    \/ CallGetSpentCalories
    \/ CallShowTrainingInfo
    \/ \E message \in Messages : CallNewInfoMessage(message)
    \/ CallGetMessage
    \/ CallMain

LibSpec == LibInit /\ [][LibNext]_vars

(******************************* claims ************************************)
KnownTypes == {"SWM", "RUN", "WLK"}
Positive(x) == x[1] > 0
NonNegative(x) == x[1] >= 0
\* the error read_package raises for a code that is not in the mapping
IsUnknownWorkoutType(e) == e.type = "Exception" /\ e.msg = "UnknownWorkoutType"
IsFormattingError(e) == e.type = "Exception" /\ e.msg = "FormattingError"
\* the sample the driver is working on
Current == packages[idx]
\* the driver has finished the current sample's computation, or given up on it
Settled == pc \in {"print", "aborted"}

\* C1: for every workout code other than "SWM", "RUN", "WLK" and every
\* argument list, read_package raises the unknown-workout-type error and
\* returns no record.
C1_UnknownCodeRaises ==
    (ret.call = "read_package" /\ packages[1].workout_type \notin KnownTypes)
        => /\ pc = "raised"
           /\ IsUnknownWorkoutType(raised)
           /\ ret.kind = "none"
           /\ training = NoTraining

C1_Witness ==
    /\ ret.call = "read_package"
    /\ packages[1].workout_type = "XYZ"
    /\ Len(packages[1].data) = 3
    /\ pc = "raised"

\* the constructor arity the spec gives for a known code
SpecArity(c) == CASE c = "RUN" -> 3 [] c = "WLK" -> 4 [] OTHER -> 5

WrongArityCall ==
    /\ ret.call = "read_package"
    /\ packages[1].workout_type \in KnownTypes
    /\ Len(packages[1].data) # SpecArity(packages[1].workout_type)

\* C2: for a known code, an argument list of the wrong length makes
\* read_package fail with an arity/type-mismatch error that is a different
\* error kind from the unknown-workout-type error, and no record is returned.
C2_ArityErrorIsDistinct ==
    WrongArityCall
        => /\ pc = "raised"
           /\ ~IsUnknownWorkoutType(raised)
           /\ training = NoTraining

\* a valid ("RUN", [action, duration, weight])
ValidRun(s) ==
    /\ s.workout_type = "RUN"
    /\ Len(s.data) = 3
    /\ NonNegative(s.data[1]) /\ Positive(s.data[2]) /\ Positive(s.data[3])

\* the Running report the claim describes, from the input numbers
RunDistance(s) == Quot(Mul(s.data[1], Rat(65, 100)), Num(1000))
RunSpeed(s) == Quot(RunDistance(s), s.data[2])
RunCalories(s) ==
    Mul(Mul(Quot(Mul(Sub(Mul(Num(18), RunSpeed(s)), Num(20)), s.data[3]),
                 Num(1000)),
            s.data[2]),
        Num(60))

RunReportAsClaimed ==
    (Settled /\ ValidRun(Current))
        => /\ pc = "print"
           /\ info.training_type = "Running"
           /\ info.duration = Current.data[2]
           /\ info.distance = RunDistance(Current)
           /\ info.speed = RunSpeed(Current)
           /\ info.calories = RunCalories(Current)

IsDemoRun == Current = DemoPackages[2]

\* C3 as stated: the Running report follows the formulas, and
\* ("RUN", [15000, 1, 75]) gives distance 9.75, speed 9.75, calories 717.75.
C3_Original ==
    /\ RunReportAsClaimed
    /\ (Settled /\ IsDemoRun)
          => /\ pc = "print"
             /\ info.distance = Rat(975, 100)
             /\ info.speed = Rat(975, 100)
             /\ info.calories = Rat(71775, 100)

\* C3 amended: for every ("RUN", [action, duration, weight]) with action >= 0,
\* duration > 0, weight > 0 the report is labelled "Running" with
\* duration = duration, distance = action*0.65/1000, speed = distance/duration,
\* calories = (18*speed - 20)*weight/1000*duration*60; ("RUN", [15000, 1, 75])
\* gives distance 9.75, speed 9.75 and calories 699.75.
C3_RunningReport ==
    /\ RunReportAsClaimed
    /\ (Settled /\ IsDemoRun)
          => /\ pc = "print"
             /\ info.distance = Rat(975, 100)
             /\ info.speed = Rat(975, 100)
             /\ info.calories = Rat(69975, 100)

C3_Witness ==
    /\ pc = "print"
    /\ IsDemoRun
    /\ info.training_type = "Running"

\* a ("SWM", [action, duration, weight, poolLength, poolCount]), duration > 0
ValidSwim(s) ==
    /\ s.workout_type = "SWM"
    /\ Len(s.data) = 5
    /\ Positive(s.data[2])

SwimSpeed(s) ==
    Quot(Quot(Mul(s.data[4], s.data[5]), Num(1000)), s.data[2])

\* C4: for every ("SWM", [action, duration, weight, poolLength, poolCount])
\* with duration > 0 the report is labelled "Swimming" with
\* distance = action*1.38/1000, speed = poolLength*poolCount/1000/duration and
\* calories = (speed + 1.1)*2*weight; ("SWM", [720, 1, 80, 25, 40]) gives
\* distance 0.9936, speed 1.0, calories 336.0.
C4_SwimmingReport ==
    /\ (Settled /\ ValidSwim(Current))
          => /\ pc = "print"
             /\ info.training_type = "Swimming"
             /\ info.duration = Current.data[2]
             /\ info.distance =
                    Quot(Mul(Current.data[1], Rat(138, 100)), Num(1000))
             /\ info.distance #
                    Quot(Mul(Current.data[1], Rat(65, 100)), Num(1000))
                    \/ IsZero(Current.data[1])
             /\ info.speed = SwimSpeed(Current)
             /\ info.calories =
                    Mul(Mul(Add(SwimSpeed(Current), Rat(11, 10)), Num(2)),
                        Current.data[3])
    /\ (Settled /\ Current = DemoPackages[1])
          => /\ pc = "print"
             /\ info.distance = Rat(9936, 10000)
             /\ info.speed = Num(1)
             /\ info.calories = Num(336)

C4_Witness ==
    /\ pc = "print"
    /\ ValidSwim(Current)
    /\ Current.data[1] = Num(720)
    /\ Current.data[2] = Rat(13, 10)
    /\ info.training_type = "Swimming"

\* a ("WLK", [action, duration, weight, height]), duration > 0, height > 0
ValidWalk(s) ==
    /\ s.workout_type = "WLK"
    /\ Len(s.data) = 4
    /\ Positive(s.data[2]) /\ Positive(s.data[4])

WalkSpeed(s) ==
    Quot(Quot(Mul(s.data[1], Rat(65, 100)), Num(1000)), s.data[2])
\* speed^2 / height, and its floor
WalkQuotient(s) == Quot(Mul(WalkSpeed(s), WalkSpeed(s)), s.data[4])
WalkFloor(s) == Floor(WalkQuotient(s))
WalkCalories(s) ==
    Mul(Mul(Add(Mul(Rat(35, 1000), s.data[3]),
                Mul(Mul(Num(WalkFloor(s)), Rat(29, 1000)), s.data[3])),
            s.data[2]),
        Num(60))

\* C5: for every ("WLK", [action, duration, weight, height]) with
\* duration > 0 and height > 0 the report is labelled "SportsWalking" with
\* distance = action*0.65/1000, speed = distance/duration and calories =
\* (0.035*weight + floor(speed^2/height)*0.029*weight)*duration*60, the floor
\* taken of the quotient alone; speed 2.5 with height 7 gives floor 0, and
\* ("WLK", [9000, 1, 75, 180]) gives calories 157.5.
C5_WalkingReport ==
    /\ (Settled /\ ValidWalk(Current))
          => /\ pc = "print"
             /\ info.training_type = "SportsWalking"
             /\ info.duration = Current.data[2]
             /\ info.distance =
                    Quot(Mul(Current.data[1], Rat(65, 100)), Num(1000))
             /\ info.speed = WalkSpeed(Current)
             /\ info.calories = WalkCalories(Current)
    /\ (pc = "print" /\ ValidWalk(Current) /\ info.speed = Rat(5, 2)
            /\ Current.data[4] = Num(7))
          => /\ WalkFloor(Current) = 0
             /\ info.calories =
                    Mul(Mul(Mul(Rat(35, 1000), Current.data[3]),
                            Current.data[2]), Num(60))
    /\ (Settled /\ Current = DemoPackages[3])
          => pc = "print" /\ info.calories = Rat(1575, 10)

\* a walk whose quotient speed^2/height is at least 1 and not an integer
C5_Witness ==
    /\ pc = "print"
    /\ ValidWalk(Current)
    /\ WalkFloor(Current) >= 1
    /\ WalkQuotient(Current)[2] # 1
    /\ info.training_type = "SportsWalking"

\* a sample that dispatches and computes: known code, matching argument
\* count, non-zero duration (and non-zero height for a walk)
SampleSucceeds(s) ==
    /\ s.workout_type \in KnownTypes
    /\ Len(s.data) = SpecArity(s.workout_type)
    /\ ~IsZero(s.data[2])
    /\ s.workout_type = "WLK" => ~IsZero(s.data[4])

\* the line main prints for a sample that succeeds
LineOf(s) == main(read_package(s.workout_type, s.data).val).val

TypeLabel(c) ==
    CASE c = "SWM" -> "Swimming" [] c = "RUN" -> "Running"
      [] OTHER -> "SportsWalking"

OutputIsPrefix ==
    /\ Len(stdout) = idx - 1
    /\ Len(stdout) <= Len(packages)
    /\ \A k \in 1..Len(stdout) :
          /\ SampleSucceeds(packages[k])
          /\ stdout[k] = LineOf(packages[k])
          /\ stdout[k][1].text.str = TypeLabel(packages[k].workout_type)
    /\ pc = "print" => SampleSucceeds(Current)
    /\ pc = "aborted" => /\ ~SampleSucceeds(Current)
                         /\ raised # NoExc
    /\ pc # "aborted" => raised = NoExc
    /\ pc = "done" => Len(stdout) = Len(packages)

\* C6: at every point of the driver's run the output is the reports of the
\* first samples, one line each and in list order; a sample that fails
\* emits no line, its error is not caught, and nothing is processed after it.
C6_OrderedAllOrNothing ==
    /\ []OutputIsPrefix
    /\ [][pc \notin {"aborted", "done"}]_vars

\* the second sample failed after the first was printed
C6_Witness ==
    /\ pc = "aborted"
    /\ idx = 2
    /\ Len(packages) = 3
    /\ Len(stdout) = 1

\* the script's own list ran to its end
C6_DemoWitness ==
    /\ pc = "done"
    /\ packages = DemoPackages
    /\ Len(stdout) = 3

Dispatchable == {"Running", "SportsWalking", "Swimming"}

\* read_package was just called with a known code, the right number of
\* arguments and duration = 0
ZeroDurationDispatch ==
    /\ ret.call = "read_package"
    /\ packages[1].workout_type \in KnownTypes
    /\ Len(packages[1].data) = SpecArity(packages[1].workout_type)
    /\ IsZero(packages[1].data[2])

\* the mean speed or the report was just asked of a record with duration = 0
ZeroDurationCompute ==
    /\ ret.call \in {"get_mean_speed", "show_training_info", "main"}
    /\ training.cls \in Dispatchable
    /\ IsZero(training.duration)

\* C7: with duration = 0 and a correct argument count dispatch succeeds for
\* every variant, and the mean speed and the report then fail with the
\* division-by-zero error itself: not the unknown-workout-type error, not the
\* formatting error, and no value is returned.
C7_ZeroDurationPropagates ==
    /\ ZeroDurationDispatch
          => /\ pc = "object"
             /\ raised = NoExc
             /\ training.cls = TypeLabel(packages[1].workout_type)
             /\ training.duration = Zero
    /\ ZeroDurationCompute
          => /\ pc = "raised"
             /\ raised.type = "ZeroDivisionError"
             /\ ~IsUnknownWorkoutType(raised)
             /\ ~IsFormattingError(raised)
             /\ ret.kind = "none"
             /\ info = NoInfo
             /\ stdout = <<>>

C7_Witness ==
    /\ ZeroDurationCompute
    /\ ret.call = "show_training_info"
    /\ training.cls = "Swimming"
    /\ pc = "raised"

\* C8: get_spent_calories of the base class Training raises NotImplemented
\* whatever the fields, so show_training_info (and main) of a base record
\* yields no report; every class read_package can return overrides it, so
\* NotImplemented is raised for base records only.
C8_NotImplementedOnlyOnBase ==
    /\ (ret.call = "get_spent_calories" /\ training.cls = "Training")
          => pc = "raised" /\ raised.type = "NotImplementedError"
    /\ (ret.call \in {"show_training_info", "main"}
            /\ training.cls = "Training")
          => /\ pc = "raised"
             /\ raised.type \in {"NotImplementedError", "ZeroDivisionError"}
             /\ info = NoInfo
             /\ stdout = <<>>
    /\ (ret.call = "read_package" /\ pc = "object")
          => training.cls \in Dispatchable
    /\ raised.type = "NotImplementedError" => training.cls = "Training"

C8_Witness ==
    /\ ret.call = "show_training_info"
    /\ training.cls = "Training"
    /\ Positive(training.duration)
    /\ raised.type = "NotImplementedError"

\* the number a rendered field shows, in thousandths
Thousandths(r) == r.whole * 1000 + r.frac[1] * 100 + r.frac[2] * 10 + r.frac[3]

\* r shows v with three fraction digits: within half a thousandth of v
Shows3(r, v) ==
    /\ Len(r.frac) = 3
    /\ \A k \in 1..3 : r.frac[k] \in 0..9
    /\ r.whole >= 0
    /\ r.sign = "-" <=> v[1] < 0
    /\ 2 * Abs(Abs(v[1]) * 1000 - Thousandths(r) * v[2]) <= v[2]

\* get_message was just called on a report made by show_training_info
MessageOfReport ==
    /\ ret.call = "get_message"
    /\ training.cls # "None"

\* C9: the message of a report assembled by show_training_info is one string
\* with the fields in the order type, duration, distance, mean speed,
\* calories, each showing the report value of that name (class name, record
\* duration, get_distance, get_mean_speed, get_spent_calories), the four
\* numbers with exactly three digits after the decimal point.
C9_MessageFields ==
    MessageOfReport
        => /\ pc = "returned"
           /\ ret.kind = "str"
           /\ Len(ret.val) = 5
           /\ [k \in 1..5 |-> ret.val[k].field] =
                 <<"training_type", "duration", "distance", "speed",
                   "calories">>
           /\ ret.val[1].text.str = training.cls
           /\ Shows3(ret.val[2].text, training.duration)
           /\ Shows3(ret.val[3].text, get_distance(training))
           /\ Shows3(ret.val[4].text, get_mean_speed(training).val)
           /\ Shows3(ret.val[5].text, get_spent_calories(training).val)

\* a message whose speed has more than three decimals and whose calories
\* are negative
C9_Witness ==
    /\ MessageOfReport
    /\ pc = "returned"
    /\ training.cls = "Running"
    /\ get_mean_speed(training).val = Rat(5, 9)
    /\ ret.val[5].text.sign = "-"

\* C10: Running calories are not clamped at zero: for weight > 0 and
\* duration > 0 they are negative exactly when 18*speed < 20; with action = 0
\* they are -20*weight/1000*duration*60 < 0, and the report is still produced
\* and printed, negative, without error.
C10_NegativeRunningCalories ==
    /\ (Settled /\ ValidRun(Current))
          => /\ pc = "print"
             /\ raised = NoExc
             /\ Lt(info.calories, Zero)
                  <=> Lt(Mul(Num(18), RunSpeed(Current)), Num(20))
             /\ IsZero(Current.data[1])
                  => /\ info.calories =
                          Mul(Mul(Quot(Mul(Num(-20), Current.data[3]),
                                       Num(1000)),
                                  Current.data[2]),
                              Num(60))
                     /\ Lt(info.calories, Zero)
    /\ \A k \in 1..Len(stdout) :
          (ValidRun(packages[k]) /\ IsZero(packages[k].data[1]))
             => /\ stdout[k][5].field = "calories"
                /\ stdout[k][5].text.sign = "-"
                /\ Thousandths(stdout[k][5].text) > 0

\* a run with no steps was printed with negative calories and the loop went on
C10_Witness ==
    /\ Len(stdout) >= 1
    /\ ValidRun(packages[1])
    /\ IsZero(packages[1].data[1])
    /\ stdout[1][5].text.sign = "-"
    /\ pc \in {"read", "done"}
    /\ raised = NoExc

====
